---- MODULE Spec2Model ----
(***************************************************************************)
(* Model of src/ingest_odds_from_api.py: flatten_odds (the traversal of    *)
(* events -> bookmakers -> markets -> outcomes, the construction of the    *)
(* three frames and the timestamp coercion loop), load_into_snowflake and  *)
(* upsert_dimension_table.                                                 *)
(*                                                                         *)
(* JSON objects are records; a key that the object does not carry has the  *)
(* value ABSENT, a JSON null (Python None) has the value None.  All leaf   *)
(* values are strings.  The lists "bookmakers", "markets" and "outcomes"   *)
(* are sequences (an absent list key reads as [] through .get(k, [])).     *)
(***************************************************************************)
EXTENDS Naturals, Sequences, FiniteSets, Bags, TLC

VARIABLES
  json_data,        \* argument of load_into_snowflake / flatten_odds
  pc,               \* position in load_into_snowflake / flatten_odds
  ei, bi, mi, oi,   \* positions of the four nested for loops (0 = before the first element)
  local,            \* flatten_odds locals that live across loop levels
  odds_rows,        \* list, line 30
  events_rows,      \* dict, line 31 (insertion ordered: sequence of <<key, row>>)
  bookmakers_rows,  \* dict, line 32
  events_df, bookmakers_df, odds_df,   \* frames of lines 93-95
  err,              \* exception that left load_into_snowflake ("none" while running)
  tables,           \* warehouse tables EVENTS, BOOKMAKERS, ODDS_SNAPSHOTS (bags of rows)
  call              \* arguments and pre-state of the last upsert_dimension_table call

vars == <<json_data, pc, ei, bi, mi, oi, local, odds_rows, events_rows,
          bookmakers_rows, events_df, bookmakers_df, odds_df, err, tables, call>>

flattenVars == <<ei, bi, mi, oi, local, odds_rows, events_rows, bookmakers_rows,
                 events_df, bookmakers_df, odds_df>>

-----------------------------------------------------------------------------
(* Bounds of the model *)
MaxEvents == 2
MaxBooks == 2
MaxMarkets == 2
MaxOutcomes == 2
MaxRows == 3

-----------------------------------------------------------------------------
(* Values *)
ABSENT == "<absent>"
None == "None"
NaT == "NaT"
T1 == "2024-01-01T18:00:00Z"
T2 == "2024-01-01T12:00:00Z"
BadTime == "not-a-date"

SeqUpTo(S, n) == UNION {[1..k -> S] : k \in 0..n}
SeqFromTo(S, lo, n) == UNION {[1..k -> S] : k \in lo..n}

-----------------------------------------------------------------------------
(* Python dictionary access *)

\* d[k] raises KeyError exactly when the key is absent (a present null does not raise)
HasKey_neverRaises(v) == TRUE
HasKey(v) == v # ABSENT

\* d.get(k): None when the key is absent
Get(v) == IF v = ABSENT THEN None ELSE v

\* d.get(k, default): the default only when the key is absent
GetDefault(v, default) == IF v = ABSENT THEN default ELSE v

\* Python truthiness of an optional string: None and "" are falsy
Truthy(v) == v # None /\ v # ""

\* dict[k] = v on an insertion-ordered dict: overwrite in place or append
DictSet_keepFirst(d, k, v) ==
  IF \E i \in DOMAIN d : d[i][1] = k THEN d ELSE Append(d, <<k, v>>)
DictSet_reset(d, k, v) == << <<k, v>> >>
DictSet(d, k, v) ==
  IF \E i \in DOMAIN d : d[i][1] = k
    THEN [i \in DOMAIN d |-> IF d[i][1] = k THEN <<k, v>> ELSE d[i]]
    ELSE Append(d, <<k, v>>)

\* pd.DataFrame.from_dict(d, orient="index"): one row per key, in dict order
FromDict(d) == [i \in DOMAIN d |-> d[i][2]]

\* pd.to_datetime(x, errors="coerce", utc=True) on one value
ToDatetime(v) ==
  CASE v = T1 -> "2024-01-01 18:00:00+00:00"
    [] v = T2 -> "2024-01-01 12:00:00+00:00"
    [] OTHER -> NaT

-----------------------------------------------------------------------------
(* flatten_odds: the pure pieces *)

\* lines 43-50
EventRow(event) ==
  [event_id |-> event.id,
   sport_key |-> event.sport_key,
   sport_title |-> Get(event.sport_title),
   commence_time_utc |-> Get(event.commence_time),
   home_team |-> Get(event.home_team),
   away_team |-> Get(event.away_team)]

\* lines 58-61
BookmakerRow(book) ==
  [bookmaker_key |-> book.key, bookmaker_title |-> Get(book.title)]

\* line 65
MarketLastUpdate_memoized(market, bookmaker_last_update) ==
  GetDefault(market.last_update,
             IF local.market_last_update # None THEN local.market_last_update
             ELSE bookmaker_last_update)
MarketLastUpdate(market, bookmaker_last_update) ==
  GetDefault(market.last_update, bookmaker_last_update)

\* lines 72-77
IsHomeTeam_noHomeGuard(outcome_name, home_team, away_team) ==
  IF Truthy(outcome_name)
    THEN IF outcome_name = home_team THEN "True"
         ELSE IF outcome_name = away_team THEN "False"
         ELSE None
    ELSE None
IsHomeTeam(outcome_name, home_team, away_team) ==
  IF Truthy(outcome_name) /\ Truthy(home_team)
    THEN IF outcome_name = home_team THEN "True"
         ELSE IF outcome_name = away_team THEN "False"
         ELSE None
    ELSE None

\* lines 80-90
OddsRow_noCommence(loc, outcome) ==
  [event_id |-> loc.event_id,
   bookmaker_key |-> loc.bookmaker_key,
   market_key |-> loc.market_key,
   outcome_name |-> Get(outcome.name),
   is_home_team |-> IsHomeTeam(Get(outcome.name), loc.home_team, loc.away_team),
   price_american |-> Get(outcome.price),
   line_point |-> Get(outcome.point),
   event_commence_utc |-> None,
   market_last_update |-> loc.market_last_update]
OddsRow(loc, outcome) ==
  [event_id |-> loc.event_id,
   bookmaker_key |-> loc.bookmaker_key,
   market_key |-> loc.market_key,
   outcome_name |-> Get(outcome.name),
   is_home_team |-> IsHomeTeam(Get(outcome.name), loc.home_team, loc.away_team),
   price_american |-> Get(outcome.price),
   line_point |-> Get(outcome.point),
   event_commence_utc |-> loc.commence_time,
   market_last_update |-> loc.market_last_update]

\* line 79: odds_rows.append(row)
EmitRow_dedup(rows, row) ==
  IF \E i \in DOMAIN rows : rows[i] = row THEN rows ELSE Append(rows, row)
EmitRow(rows, row) == Append(rows, row)

\* lines 99-100 for one column of events_df
CoerceEvents(df) ==
  [i \in DOMAIN df |-> [df[i] EXCEPT !.commence_time_utc = ToDatetime(@)]]

-----------------------------------------------------------------------------
(* Inputs *)

Outcome(name, price, point) == [name |-> name, price |-> price, point |-> point]
Market(key, last_update, outcomes) ==
  [key |-> key, last_update |-> last_update, outcomes |-> outcomes]
Book(key, title, last_update, markets) ==
  [key |-> key, title |-> title, last_update |-> last_update, markets |-> markets]
Event(id, sport_key, commence_time, home_team, away_team, bookmakers) ==
  [id |-> id, sport_key |-> sport_key, sport_title |-> "NFL",
   commence_time |-> commence_time, home_team |-> home_team,
   away_team |-> away_team, bookmakers |-> bookmakers]

GoodOutcome == Outcome("Eagles", "-150", ABSENT)
GoodMarket == Market("h2h", ABSENT, <<GoodOutcome>>)
GoodBook == Book("bk1", "DraftKings", T2, <<GoodMarket>>)

\* one event, one market: team names and outcome names vary
TeamNames == {ABSENT, "", "Eagles", "Chiefs"}
OutcomeNames == {ABSENT, "", "Eagles", "Chiefs", "Over"}
HomeInputs ==
  { << Event("evt1", "americanfootball_nfl", T1, h, a,
             << Book("bk1", "DraftKings", T2, << Market("h2h", ABSENT, os) >>) >>) >> :
      h \in TeamNames, a \in TeamNames,
      os \in SeqFromTo({Outcome(n, "-150", ABSENT) : n \in OutcomeNames}, 1, MaxOutcomes) }

\* one bookmaker: its last_update and that of each of its markets vary
LastUpdateInputs ==
  { << Event("evt1", "americanfootball_nfl", T1, "Eagles", "Chiefs",
             << Book("bk1", "DraftKings", blu, ms) >>) >> :
      blu \in {ABSENT, None, T2},
      ms \in SeqFromTo({Market("h2h", lu, <<GoodOutcome>>) : lu \in {ABSENT, None, T1, BadTime}},
                       1, MaxMarkets) }

\* events vary: required keys, repeated identifiers, commence times, no bookmakers
EventInputs ==
  SeqUpTo({Event(id, sk, ct, "Eagles", "Chiefs", bs) :
             id \in {ABSENT, "evt1", "evt2"},
             sk \in {ABSENT, "americanfootball_nfl"},
             ct \in {T1, BadTime},
             bs \in {<<>>, <<GoodBook>>}},
          MaxEvents)

\* bookmakers vary: required key, keys repeated within and across events, titles
BookSet == {Book(k, t, T2, <<GoodMarket>>) : k \in {ABSENT, "bk1", "bk2"},
                                               t \in {"DraftKings", "FanDuel"}}
BookInputs ==
  { << Event("evt1", "americanfootball_nfl", T1, "Eagles", "Chiefs", bs) >> \o tl :
      bs \in SeqUpTo(BookSet, MaxBooks),
      tl \in {<<>>} \cup
             { << Event("evt2", "americanfootball_nfl", T1, "Chiefs", "Eagles", bs2) >> :
                 bs2 \in SeqUpTo(BookSet, 1) } }

\* markets vary: required key, number of markets and of outcomes, repeated outcomes
MarketInputs ==
  { << Event("evt1", "americanfootball_nfl", T1, "Eagles", "Chiefs",
             << Book("bk1", "DraftKings", T2, ms) >>) >> :
      ms \in SeqUpTo({Market(k, ABSENT, os) :
                        k \in {ABSENT, "totals"},
                        os \in SeqUpTo({Outcome("Over", "-110", "44.5"),
                                        Outcome("Under", "-110", "44.5")}, MaxOutcomes)},
                     MaxMarkets) }

Inputs == HomeInputs \cup LastUpdateInputs \cup EventInputs \cup BookInputs \cup MarketInputs

-----------------------------------------------------------------------------
(* load_into_snowflake / flatten_odds as a state machine *)

NoLocal ==
  [event_id |-> None, commence_time |-> None, home_team |-> None, away_team |-> None,
   bookmaker_key |-> None, bookmaker_last_update |-> None,
   market_key |-> None, market_last_update |-> None]

EmptyTables == [EVENTS |-> EmptyBag, BOOKMAKERS |-> EmptyBag, ODDS_SNAPSHOTS |-> EmptyBag]
NoCall == [table_name |-> "none", df |-> <<>>, before |-> EmptyBag]

Init ==
  /\ json_data \in Inputs
  /\ pc = "load"
  /\ ei = 0 /\ bi = 0 /\ mi = 0 /\ oi = 0
  /\ local = NoLocal
  /\ odds_rows = <<>> /\ events_rows = <<>> /\ bookmakers_rows = <<>>
  /\ events_df = <<>> /\ bookmakers_df = <<>> /\ odds_df = <<>>
  /\ err = "none"
  /\ tables = EmptyTables
  /\ call = NoCall

curEvent == json_data[ei]
curBook == curEvent.bookmakers[bi]
curMarket == curBook.markets[mi]

\* lines 135-137 and 30-32: get_session(), then flatten_odds is entered
Load ==
  /\ pc = "load"
  /\ pc' = "for_event"
  /\ UNCHANGED <<json_data, flattenVars, err, tables, call>>

\* lines 34-50, one iteration head of "for event in json_data"
EventStep ==
  /\ pc = "for_event" /\ ei < Len(json_data)
  /\ LET event == json_data[ei + 1] IN
       /\ HasKey(event.id) /\ HasKey(event.sport_key)
       /\ local' = [local EXCEPT !.event_id = event.id,
                                 !.commence_time = Get(event.commence_time),
                                 !.home_team = Get(event.home_team),
                                 !.away_team = Get(event.away_team)]
       /\ events_rows' = DictSet(events_rows, event.id, EventRow(event))
  /\ ei' = ei + 1 /\ bi' = 0
  /\ pc' = "for_book"
  /\ UNCHANGED <<json_data, mi, oi, odds_rows, bookmakers_rows,
                 events_df, bookmakers_df, odds_df, err, tables, call>>

\* lines 35-36: event["id"] or event["sport_key"] raises KeyError
EventKeyError ==
  /\ pc = "for_event" /\ ei < Len(json_data)
  /\ LET event == json_data[ei + 1] IN ~(HasKey(event.id) /\ HasKey(event.sport_key))
  /\ pc' = "raised" /\ err' = "KeyError"
  /\ UNCHANGED <<json_data, flattenVars, tables, call>>

\* line 34 exhausted: on to line 93
EventsDone ==
  /\ pc = "for_event" /\ ei = Len(json_data)
  /\ pc' = "build"
  /\ UNCHANGED <<json_data, flattenVars, err, tables, call>>

\* lines 52-61
BookStep ==
  /\ pc = "for_book" /\ bi < Len(curEvent.bookmakers)
  /\ LET book == curEvent.bookmakers[bi + 1] IN
       /\ HasKey(book.key)
       /\ local' = [local EXCEPT !.bookmaker_key = book.key,
                                 !.bookmaker_last_update = Get(book.last_update)]
       /\ bookmakers_rows' = DictSet(bookmakers_rows, book.key, BookmakerRow(book))
  /\ bi' = bi + 1 /\ mi' = 0
  /\ pc' = "for_market"
  /\ UNCHANGED <<json_data, ei, oi, odds_rows, events_rows,
                 events_df, bookmakers_df, odds_df, err, tables, call>>

\* line 53: book["key"] raises KeyError
BookKeyError ==
  /\ pc = "for_book" /\ bi < Len(curEvent.bookmakers)
  /\ ~HasKey(curEvent.bookmakers[bi + 1].key)
  /\ pc' = "raised" /\ err' = "KeyError"
  /\ UNCHANGED <<json_data, flattenVars, tables, call>>

BooksDone ==
  /\ pc = "for_book" /\ bi = Len(curEvent.bookmakers)
  /\ pc' = "for_event"
  /\ UNCHANGED <<json_data, flattenVars, err, tables, call>>

\* lines 63-65
MarketStep ==
  /\ pc = "for_market" /\ mi < Len(curBook.markets)
  /\ LET market == curBook.markets[mi + 1] IN
       /\ HasKey(market.key)
       /\ local' = [local EXCEPT
                      !.market_key = market.key,
                      !.market_last_update =
                         MarketLastUpdate(market, local.bookmaker_last_update)]
  /\ mi' = mi + 1 /\ oi' = 0
  /\ pc' = "for_outcome"
  /\ UNCHANGED <<json_data, ei, bi, odds_rows, events_rows, bookmakers_rows,
                 events_df, bookmakers_df, odds_df, err, tables, call>>

\* line 64: market["key"] raises KeyError
MarketKeyError ==
  /\ pc = "for_market" /\ mi < Len(curBook.markets)
  /\ ~HasKey(curBook.markets[mi + 1].key)
  /\ pc' = "raised" /\ err' = "KeyError"
  /\ UNCHANGED <<json_data, flattenVars, tables, call>>

MarketsDone ==
  /\ pc = "for_market" /\ mi = Len(curBook.markets)
  /\ pc' = "for_book"
  /\ UNCHANGED <<json_data, flattenVars, err, tables, call>>

\* lines 67-91
OutcomeStep ==
  /\ pc = "for_outcome" /\ oi < Len(curMarket.outcomes)
  /\ odds_rows' = EmitRow(odds_rows, OddsRow(local, curMarket.outcomes[oi + 1]))
  /\ oi' = oi + 1
  /\ UNCHANGED <<json_data, pc, ei, bi, mi, local, events_rows, bookmakers_rows,
                 events_df, bookmakers_df, odds_df, err, tables, call>>

OutcomesDone ==
  /\ pc = "for_outcome" /\ oi = Len(curMarket.outcomes)
  /\ pc' = "for_market"
  /\ UNCHANGED <<json_data, flattenVars, err, tables, call>>

\* lines 93-95
BuildFrames ==
  /\ pc = "build"
  /\ events_df' = FromDict(events_rows)
  /\ bookmakers_df' = FromDict(bookmakers_rows)
  /\ odds_df' = odds_rows
  /\ pc' = "coerce"
  /\ UNCHANGED <<json_data, ei, bi, mi, oi, local, odds_rows, events_rows,
                 bookmakers_rows, err, tables, call>>

\* lines 98-102, first iteration (col = "commence_time_utc"): line 99-100 coerces the
\* column of events_df when the frame has it (a frame built from an empty dict has no
\* columns); line 101 then reads odds_df.columnsz, which is no attribute and no column
\* of the frame, so AttributeError leaves flatten_odds and load_into_snowflake.
CoerceTimestamps ==
  /\ pc = "coerce"
  /\ events_df' = IF events_df # <<>> THEN CoerceEvents(events_df) ELSE events_df
  /\ pc' = "raised" /\ err' = "AttributeError"
  /\ UNCHANGED <<json_data, ei, bi, mi, oi, local, odds_rows, events_rows,
                 bookmakers_rows, bookmakers_df, odds_df, tables, call>>

Next ==
  \/ Load
  \/ EventStep \/ EventKeyError \/ EventsDone
  \/ BookStep \/ BookKeyError \/ BooksDone
  \/ MarketStep \/ MarketKeyError \/ MarketsDone
  \/ OutcomeStep \/ OutcomesDone
  \/ BuildFrames
  \/ CoerceTimestamps

Spec == Init /\ [][Next]_vars

-----------------------------------------------------------------------------
(* upsert_dimension_table, applied to frames as DataFrame.from_dict builds them *)

NULL == "NULL"
KeySet == {"k1", "k2"}

\* rows of a dimension frame or table: the key column and the other columns
RowSet ==
  {[key |-> k, data |-> d] : k \in KeySet, d \in {"d1", "d2"}}
    \cup {[key |-> NULL, data |-> "d1"]}

\* lines 93-94: a frame built from a dict has one row per dict key; the key may be
\* None (event["id"] of line 35 accepts a JSON null), which is written as SQL NULL
Frames == {f \in SUBSET RowSet : \A r1, r2 \in f : r1.key = r2.key => r1 = r2}

\* a dimension table as a run finds it: unique keys, none of them NULL
KeyedFrames == {f \in Frames : \A r \in f : r.key # NULL}

\* line 127: t.key = d.key is true only for two equal non-NULL values
SqlEq(a, b) == a # NULL /\ b # NULL /\ a = b

\* lines 113-131: nothing for an empty frame; otherwise the frame is written to the
\* temporary table, the rows of it that the LEFT JOIN pairs with no row of the
\* target table are inserted, and the temporary table is dropped
Upsert_insertAll(table, df) == table (+) SetToBag(df)
Upsert(table, df) ==
  IF df = {} THEN table
  ELSE LET temp_table == df
           inserted == {t \in temp_table :
                          ~\E d \in BagToSet(table) : SqlEq(t.key, d.key)}
       IN table (+) SetToBag(inserted)

InitUpsert ==
  /\ json_data = <<>>
  /\ pc = "upsert"
  /\ ei = 0 /\ bi = 0 /\ mi = 0 /\ oi = 0
  /\ local = NoLocal
  /\ odds_rows = <<>> /\ events_rows = <<>> /\ bookmakers_rows = <<>>
  /\ events_df = <<>> /\ bookmakers_df = <<>> /\ odds_df = <<>>
  /\ err = "none"
  /\ \E e \in KeyedFrames, b \in KeyedFrames :
       tables = [EVENTS |-> SetToBag(e), BOOKMAKERS |-> SetToBag(b),
                 ODDS_SNAPSHOTS |-> EmptyBag]
  /\ call = [table_name |-> "none", df |-> {}, before |-> tables]

UpsertDimensionTable(table_name) ==
  /\ pc = "upsert"
  /\ \E df \in Frames :
       /\ BagCardinality(Upsert(tables[table_name], df)) <= MaxRows
       /\ tables' = [tables EXCEPT ![table_name] = Upsert(@, df)]
       /\ call' = [table_name |-> table_name, df |-> df, before |-> tables]
  /\ UNCHANGED <<json_data, pc, flattenVars, err>>

\* line 140
UpsertEvents == UpsertDimensionTable("EVENTS")
\* line 141
UpsertBookmakers == UpsertDimensionTable("BOOKMAKERS")

NextUpsert == UpsertEvents \/ UpsertBookmakers

SpecUpsert == InitUpsert /\ [][NextUpsert]_vars

-----------------------------------------------------------------------------
(* The input, read declaratively *)

RECURSIVE Concat(_)
Concat(ss) == IF ss = <<>> THEN <<>> ELSE Head(ss) \o Concat(Tail(ss))

RECURSIVE SumSeq(_)
SumSeq(s) == IF s = <<>> THEN 0 ELSE Head(s) + SumSeq(Tail(s))

\* every (event, bookmaker, market, outcome) position of the input, in traversal order
Quads(json) ==
  Concat([e \in 1..Len(json) |->
    Concat([b \in 1..Len(json[e].bookmakers) |->
      Concat([m \in 1..Len(json[e].bookmakers[b].markets) |->
        [o \in 1..Len(json[e].bookmakers[b].markets[m].outcomes) |->
           [e |-> e, b |-> b, m |-> m, o |-> o]]])])])

\* every (event, bookmaker) position of the input, in traversal order
BookOccs(json) ==
  Concat([e \in 1..Len(json) |->
    [b \in 1..Len(json[e].bookmakers) |-> [e |-> e, b |-> b]]])

TotalOutcomes(json) ==
  SumSeq([e \in 1..Len(json) |->
    SumSeq([b \in 1..Len(json[e].bookmakers) |->
      SumSeq([m \in 1..Len(json[e].bookmakers[b].markets) |->
        Len(json[e].bookmakers[b].markets[m].outcomes)])])])

\* no event lacks id or sport_key, no bookmaker lacks key, no market lacks key
WellFormed(json) ==
  \A e \in DOMAIN json :
    /\ json[e].id # ABSENT /\ json[e].sport_key # ABSENT
    /\ \A b \in DOMAIN json[e].bookmakers :
         /\ json[e].bookmakers[b].key # ABSENT
         /\ \A m \in DOMAIN json[e].bookmakers[b].markets :
              json[e].bookmakers[b].markets[m].key # ABSENT

QEvent(q) == json_data[q.e]
QBook(q) == json_data[q.e].bookmakers[q.b]
QMarket(q) == json_data[q.e].bookmakers[q.b].markets[q.m]
QOutcome(q) == json_data[q.e].bookmakers[q.b].markets[q.m].outcomes[q.o]

Opt(v) == IF v = ABSENT THEN None ELSE v
Present(v) == v \notin {ABSENT, None, ""}

\* the three frames of lines 93-95 exist and the coercion loop has not yet run
FramesBuilt == pc = "coerce"

\* row i of odds_df was emitted for position i of the traversal
RowsAligned == Len(odds_df) = Len(Quads(json_data))

-----------------------------------------------------------------------------
(* Claims *)

\* C1 as stated: for every fact row, is_home_team is null when the outcome name or
\* either team name is missing; otherwise it is true iff the outcome name equals the
\* home team name, false iff it equals the away team name, and null when it matches
\* neither.
C1_IsHomeTeamAsStated ==
  FramesBuilt =>
    /\ RowsAligned
    /\ \A i \in DOMAIN odds_df :
         LET q == Quads(json_data)[i]
             o == QOutcome(q).name
             h == QEvent(q).home_team
             a == QEvent(q).away_team
         IN odds_df[i].is_home_team =
              IF ~Present(o) \/ ~Present(h) \/ ~Present(a) THEN None
              ELSE IF o = h THEN "True"
              ELSE IF o = a THEN "False"
              ELSE None

\* C1 (amended): for every fact row, is_home_team is true iff the outcome name is
\* present and non-empty and equals the home team name; false iff outcome name and
\* home team name are both present and non-empty, differ, and the outcome name equals
\* the away team name; and null in every other case.  A missing away team name alone
\* does not make the flag null; a missing or empty home team name always does.
C1_IsHomeTeam ==
  FramesBuilt =>
    /\ RowsAligned
    /\ \A i \in DOMAIN odds_df :
         LET q == Quads(json_data)[i]
             o == QOutcome(q).name
             h == QEvent(q).home_team
             a == QEvent(q).away_team
             f == odds_df[i].is_home_team
         IN /\ f \in {"True", "False", None}
            /\ (f = "True") <=> (Present(o) /\ o = h)
            /\ (f = "False") <=> (Present(o) /\ Present(h) /\ o # h /\ o = a)

\* C1 witness: home team "Eagles", away team "Chiefs", one row true and one row false
C1_Witness ==
  /\ FramesBuilt
  /\ \E i, j \in DOMAIN odds_df :
       /\ odds_df[i].is_home_team = "True"
       /\ odds_df[j].is_home_team = "False"
  /\ json_data[1].home_team = "Eagles" /\ json_data[1].away_team = "Chiefs"

\* C2 as stated: each fact row carries the market's own last-update when the market has
\* one and otherwise the enclosing bookmaker's last-update.
C2_LastUpdateAsStated ==
  FramesBuilt =>
    /\ RowsAligned
    /\ \A i \in DOMAIN odds_df :
         LET q == Quads(json_data)[i]
             own == Opt(QMarket(q).last_update)
         IN odds_df[i].market_last_update =
              IF own # None THEN own ELSE Opt(QBook(q).last_update)

\* C2 (amended): each fact row carries the value of the market's own last_update key
\* when the market has that key, a null value included, and the enclosing bookmaker's
\* last-update only when the market has no last_update key; this is decided for each
\* market independently of the markets before it.
C2_LastUpdate ==
  FramesBuilt =>
    /\ RowsAligned
    /\ \A i \in DOMAIN odds_df :
         LET q == Quads(json_data)[i]
         IN odds_df[i].market_last_update =
              IF QMarket(q).last_update # ABSENT
                THEN QMarket(q).last_update
                ELSE Opt(QBook(q).last_update)

\* C2 witness: a market without last_update after one with it, in the same bookmaker
C2_Witness ==
  /\ FramesBuilt
  /\ Len(odds_df) = 2
  /\ json_data[1].bookmakers[1].last_update = T2
  /\ Len(json_data[1].bookmakers[1].markets) = 2
  /\ json_data[1].bookmakers[1].markets[1].last_update = T1
  /\ json_data[1].bookmakers[1].markets[2].last_update = ABSENT
  /\ odds_df[1].market_last_update = T1
  /\ odds_df[2].market_last_update = T2

\* C3 as stated: an absent, empty or invalid timestamp never makes flatten_odds raise;
\* a batch without missing required keys leaves flatten_odds without an exception.
C3_TimestampResilience == WellFormed(json_data) => err = "none"

\* C4: when an event lacks id or sport_key, a bookmaker lacks key or a market lacks key,
\* the run never gets to build its frames, it ends only by raising, the exception is
\* the KeyError of the missing key, and no frame is produced.
C4_MalformedIsFatal ==
  ~WellFormed(json_data) =>
    /\ pc \notin {"build", "coerce"}
    /\ (~ENABLED Next) => pc = "raised"
    /\ pc = "raised" =>
         /\ err = "KeyError"
         /\ events_df = <<>> /\ bookmakers_df = <<>> /\ odds_df = <<>>

\* C4 witness: the malformed record is met after well-formed records were traversed
C4_Witness ==
  /\ pc = "raised" /\ err = "KeyError"
  /\ ei = 2
  /\ odds_rows # <<>>

\* C5: the fact frame has exactly one row per outcome of the input, in traversal
\* order, duplicates included; its length is the total number of outcomes.
C5_OneRowPerOutcome ==
  FramesBuilt =>
    /\ Len(odds_df) = TotalOutcomes(json_data)
    /\ RowsAligned
    /\ \A i \in DOMAIN odds_df :
         LET q == Quads(json_data)[i]
             r == odds_df[i]
         IN /\ r.event_id = QEvent(q).id
            /\ r.bookmaker_key = QBook(q).key
            /\ r.market_key = QMarket(q).key
            /\ r.outcome_name = Opt(QOutcome(q).name)
            /\ r.price_american = Opt(QOutcome(q).price)
            /\ r.line_point = Opt(QOutcome(q).point)

\* C5 witness: two equal outcomes give two equal rows
C5_Witness ==
  /\ FramesBuilt
  /\ Len(odds_df) >= 3
  /\ \E i, j \in DOMAIN odds_df : i # j /\ odds_df[i] = odds_df[j]

\* C6: the bookmaker frame has exactly one row per distinct bookmaker key of the whole
\* input, and the row carries the title of the key's last occurrence in traversal order.
C6_BookmakersLastWriteWins ==
  FramesBuilt =>
    LET occ == BookOccs(json_data)
        keyOf(n) == json_data[occ[n].e].bookmakers[occ[n].b].key
        titleOf(n) == Opt(json_data[occ[n].e].bookmakers[occ[n].b].title)
    IN /\ {bookmakers_df[i].bookmaker_key : i \in DOMAIN bookmakers_df}
            = {keyOf(n) : n \in DOMAIN occ}
       /\ \A i, j \in DOMAIN bookmakers_df :
            bookmakers_df[i].bookmaker_key = bookmakers_df[j].bookmaker_key => i = j
       /\ \A i \in DOMAIN bookmakers_df :
            \E n \in DOMAIN occ :
              /\ keyOf(n) = bookmakers_df[i].bookmaker_key
              /\ \A n2 \in DOMAIN occ : keyOf(n2) = keyOf(n) => n2 <= n
              /\ bookmakers_df[i].bookmaker_title = titleOf(n)

\* C6 witness: two events list the same bookmaker key with different titles
C6_Witness ==
  /\ FramesBuilt
  /\ Len(json_data) = 2
  /\ \E b1 \in DOMAIN json_data[1].bookmakers, b2 \in DOMAIN json_data[2].bookmakers :
       /\ json_data[1].bookmakers[b1].key = json_data[2].bookmakers[b2].key
       /\ json_data[1].bookmakers[b1].title # json_data[2].bookmakers[b2].title
  /\ Len(bookmakers_df) < Len(BookOccs(json_data))

\* C7: every fact row's event identifier is the identifier of a row of the event frame
\* built from the same batch.
C7_FactEventExists ==
  FramesBuilt =>
    \A i \in DOMAIN odds_df :
      \E j \in DOMAIN events_df : events_df[j].event_id = odds_df[i].event_id

\* C7 witness: fact rows of two different events
C7_Witness ==
  /\ FramesBuilt
  /\ \E i, j \in DOMAIN odds_df : odds_df[i].event_id # odds_df[j].event_id

C9_FactsAppended ==
  (pc = "raised" /\ WellFormed(json_data)) =>
    \A i \in DOMAIN odds_df : BagIn(odds_df[i], tables.ODDS_SNAPSHOTS)

\* C10 as stated: the commence time of a fact row equals the commence time of the
\* event row with the same identifier, repeated identifiers included.
C10_CommenceAsStated ==
  FramesBuilt =>
    \A i \in DOMAIN odds_df : \A j \in DOMAIN events_df :
      events_df[j].event_id = odds_df[i].event_id =>
        odds_df[i].event_commence_utc = events_df[j].commence_time_utc

\* C10 (amended): in the frames as built, a fact row carries the commence time of the
\* input event it was emitted for, and the event row carries the commence time of the
\* last input event with its identifier; the two are equal for every fact row emitted
\* for the last (in particular the only) occurrence of its event identifier.
C10_Commence ==
  FramesBuilt =>
    /\ RowsAligned
    /\ \A i \in DOMAIN odds_df : \A j \in DOMAIN events_df :
         LET q == Quads(json_data)[i]
             last == CHOOSE e \in DOMAIN json_data :
                       /\ json_data[e].id = QEvent(q).id
                       /\ \A e2 \in DOMAIN json_data :
                            json_data[e2].id = QEvent(q).id => e2 <= e
         IN events_df[j].event_id = odds_df[i].event_id =>
              /\ odds_df[i].event_commence_utc = Opt(QEvent(q).commence_time)
              /\ events_df[j].commence_time_utc = Opt(json_data[last].commence_time)
              /\ q.e = last =>
                   odds_df[i].event_commence_utc = events_df[j].commence_time_utc

\* C10 witness: one identifier twice with different commence times, rows of both
C10_Witness ==
  /\ FramesBuilt
  /\ Len(json_data) = 2
  /\ json_data[1].id = json_data[2].id
  /\ json_data[1].commence_time # json_data[2].commence_time
  /\ Len(odds_df) = 2

====
